---- MODULE Spec2Model ----
(***************************************************************************)
(* The responder system of the event plugins: ResponderCache (the active   *)
(* responder registry), GestureCache (touches grouped by current target)   *)
(* and ResponderEventPlugin (negotiation and event extraction).            *)
(*                                                                         *)
(* One extractEvents call is one atomic step: the plugin is synchronous    *)
(* and runs to completion for each native touch event.                     *)
(***************************************************************************)
EXTENDS Integers, Sequences, FiniteSets, TLC

(***************************************************************************)
(* Bounds of the model.                                                    *)
(***************************************************************************)
NumInstances == 4
MaxTouches == 2
MaxBatch == 2

None == 0

Instances == 1..NumInstances
TouchIds == 1..MaxTouches
GestureIds == 1..(NumInstances + MaxTouches)

(***************************************************************************)
(* The instance tree and the tag <-> instance mapping (EventPluginUtils).  *)
(* Instance 1 is the root, the parent of instance i is i \div 2.  Tags are *)
(* numbers in a range disjoint from the instances.                         *)
(***************************************************************************)
getParentInstance(inst) == inst \div 2

getTagFromInstance(inst) == NumInstances + inst

getInstanceFromTag(tag) == tag - NumInstances

Tags == {getTagFromInstance(i) : i \in Instances}

\* In the native renderer the host node of an instance is its tag.
getNodeFromInstance(inst) == getTagFromInstance(inst)

getTagFromNode(node) == node

RECURSIVE AncestorsOrSelf(_)
AncestorsOrSelf(inst) ==
  IF inst = None THEN {} ELSE {inst} \cup AncestorsOrSelf(getParentInstance(inst))

isStartish(topLevelType) == topLevelType = "topTouchStart"

isMoveish(topLevelType) == topLevelType = "topTouchMove"

isEndish(topLevelType) == topLevelType \in {"topTouchEnd", "topTouchCancel"}

(***************************************************************************)
(* The log of one extraction, in the order things happen: events created   *)
(* (mode "deferred" when accumulated into the returned list, "direct" when *)
(* dispatched on demand), registry calls (mode "registry"; had tells if    *)
(* the registry held an entry for the instance's tag before the call),     *)
(* notifications of the responder-change observer (type "onChange", mode   *)
(* "observer", inst the instance that stopped being responder and to the   *)
(* one that became it, None for neither) and console warnings (mode        *)
(* "warn").                                                                *)
(***************************************************************************)
Entry(type, inst, to, mode, had) ==
  [type |-> type, inst |-> inst, to |-> to, mode |-> mode, had |-> had]

Emit(S, type, inst, to, mode) ==
  [S EXCEPT !.log = Append(@, Entry(type, inst, to, mode, FALSE))]

(***************************************************************************)
(* ResponderCache                                                          *)
(***************************************************************************)
grant(S, inst) ==
  LET tag == getTagFromInstance(inst) IN
  [S EXCEPT !.cache[tag] = inst,
            !.log = Append(Append(@, Entry("grant", inst, <<>>, "registry",
                                           S.cache[tag] # None)),
                           Entry("onChange", None, <<inst>>, "observer",
                                 FALSE))]

release(S, inst) ==
  LET tag == getTagFromInstance(inst) IN
  [S EXCEPT !.cache[tag] = None,
            !.log = Append(Append(@, Entry("release", inst, <<>>, "registry",
                                           S.cache[tag] # None)),
                           Entry("onChange", inst, <<None>>, "observer",
                                 FALSE))]

resolveInstance(target) ==
  IF target \in Tags THEN getInstanceFromTag(target) ELSE target

RECURSIVE findAncestorFrom(_, _)
findAncestorFrom(cache, inst) ==
  IF inst = None THEN None
  ELSE IF cache[getTagFromInstance(inst)] # None THEN inst
  ELSE findAncestorFrom(cache, getParentInstance(inst))

\* Variant: any registered responder answers, on the ancestor chain or not.
findAncestor_anyResponder(cache, target) ==
  IF \E tag \in Tags : cache[tag] # None
  THEN cache[CHOOSE tag \in Tags : cache[tag] # None]
  ELSE None

\* Variant: only the target itself is looked up, its ancestors are not.
findAncestor_targetOnly(cache, target) ==
  IF cache[getTagFromInstance(resolveInstance(target))] # None
  THEN resolveInstance(target)
  ELSE None

\* Variant: the walk starts at the target's parent.
findAncestor_skipsTarget(cache, target) ==
  IF resolveInstance(target) = None THEN None
  ELSE findAncestorFrom(cache, getParentInstance(resolveInstance(target)))

findAncestor(cache, target) == findAncestorFrom(cache, resolveInstance(target))

(***************************************************************************)
(* TouchHistory: the touch bank of one gesture, kept as the set of the     *)
(* identifiers whose record is active.                                     *)
(***************************************************************************)
NewTouchHistory == {}

RECURSIVE Identifiers(_)
Identifiers(touches) ==
  IF touches = <<>> THEN {}
  ELSE {Head(touches).identifier} \cup Identifiers(Tail(touches))

recordTouchEvent(touchHistory, topLevelType, changedTouches) ==
  IF isStartish(topLevelType) THEN touchHistory \cup Identifiers(changedTouches)
  ELSE IF isEndish(topLevelType) THEN touchHistory \ Identifiers(changedTouches)
  ELSE touchHistory

numberActiveTouches(touchHistory) == Cardinality(touchHistory)

(***************************************************************************)
(* GestureCache.  Gesture objects live in a store indexed by GestureIds; a *)
(* free slot holds NoGesture.  activeGestures, gesturesByTouch and         *)
(* gesturesByTarget hold references (gesture ids) into the store.  A touch *)
(* object is its identifier and its raw target (a tag).                    *)
(***************************************************************************)
EmptyTouchMap == [id \in TouchIds |-> None]

NoGesture ==
  [target |-> None, touchMap |-> EmptyTouchMap, changedTouches |-> <<>>,
   touchHistory |-> NewTouchHistory]

Touch(identifier, target) == [identifier |-> identifier, target |-> target]

\* Object.values(gesture.touchMap), as the set of the identifiers it holds.
TouchesOf(gesture) == {id \in TouchIds : gesture.touchMap[id] # None}

\* Array.prototype.indexOf, 1-based; 0 when the element is absent.
indexOf(seq, x) ==
  IF \E i \in 1..Len(seq) : seq[i] = x
  THEN CHOOSE i \in 1..Len(seq) : seq[i] = x /\ \A j \in 1..(i - 1) : seq[j] # x
  ELSE 0

\* Array.prototype.splice(index, 1) as removeGesture calls it: an index of
\* -1 (element absent) counts from the end and removes the last element.
splice(seq, index) ==
  LET at == IF index = 0 THEN Len(seq) ELSE index IN
  IF seq = <<>> THEN seq
  ELSE SubSeq(seq, 1, at - 1) \o SubSeq(seq, at + 1, Len(seq))

\* Variant: the gesture leaves the list but keeps its target index entry.
removeGesture_listOnly(S, g) ==
  [S EXCEPT !.activeGestures = splice(@, indexOf(@, g))]

removeGesture(S, g) ==
  [S EXCEPT !.activeGestures = splice(@, indexOf(@, g)),
            !.gesturesByTarget[S.gst[g].target] = None]

\* A new gesture object: the first free slot of the store.
FreshGesture(S) ==
  CHOOSE g \in GestureIds :
    /\ S.gst[g] = NoGesture
    /\ \A h \in 1..(g - 1) : S.gst[h] # NoGesture

\* The tag a new touch is grouped under: the nearest active responder of
\* its raw target, or the raw target itself.
GestureTarget(responderInst, touch) ==
  getTagFromNode(IF responderInst # None
                 THEN getNodeFromInstance(responderInst)
                 ELSE touch.target)

CreateGesture(S, g, target) ==
  [S EXCEPT !.gst[g] = [NoGesture EXCEPT !.target = target],
            !.activeGestures = Append(@, g),
            !.gesturesByTarget[target] = g]

\* Variant: every new touch gets a gesture of its own.
AttachTo_alwaysNew(S, touch, target) ==
  [CreateGesture(S, FreshGesture(S), target)
     EXCEPT !.gesturesByTouch[touch.identifier] = FreshGesture(S)]

AttachTo(S, touch, target) ==
  IF S.gesturesByTarget[target] # None
  THEN [S EXCEPT !.gesturesByTouch[touch.identifier] = S.gesturesByTarget[target]]
  ELSE [CreateGesture(S, FreshGesture(S), target)
          EXCEPT !.gesturesByTouch[touch.identifier] = FreshGesture(S)]

\* Variant: a touch is grouped under its raw target, responders or not.
attachGesture_rawTarget(S, touch) ==
  AttachTo(S, touch, getTagFromNode(touch.target))

attachGesture(S, touch) ==
  AttachTo(S, touch, GestureTarget(findAncestor(S.cache, touch.target), touch))

\* Variant: the touch index is not pointed at newGesture.
MergeGesture_keepsIndex(S, topLevelType, oldGesture, newGesture) ==
  [S EXCEPT
     !.gst[newGesture] =
        [@ EXCEPT
           !.touchHistory =
              recordTouchEvent(@, topLevelType, S.gst[oldGesture].changedTouches),
           !.changedTouches = @ \o S.gst[oldGesture].changedTouches,
           !.touchMap =
              [id \in TouchIds |->
                 IF S.gst[oldGesture].touchMap[id] # None
                 THEN S.gst[oldGesture].touchMap[id]
                 ELSE @[id]]]]

\* Move touch data from oldGesture to newGesture.
MergeGesture(S, topLevelType, oldGesture, newGesture) ==
  [S EXCEPT
     !.gst[newGesture] =
        [@ EXCEPT
           !.touchHistory =
              recordTouchEvent(@, topLevelType, S.gst[oldGesture].changedTouches),
           !.changedTouches = @ \o S.gst[oldGesture].changedTouches,
           !.touchMap =
              [id \in TouchIds |->
                 IF S.gst[oldGesture].touchMap[id] # None
                 THEN S.gst[oldGesture].touchMap[id]
                 ELSE @[id]]],
     !.gesturesByTouch =
        [id \in TouchIds |->
           IF S.gst[oldGesture].touchMap[id] # None THEN newGesture ELSE @[id]]]

\* Variant: the old target's index entry is not deleted.
RelabelGesture_keepsOld(S, oldGesture, oldTag, newTag) ==
  [S EXCEPT !.gst[oldGesture].target = newTag,
            !.gesturesByTarget[newTag] = oldGesture]

RelabelGesture(S, oldGesture, oldTag, newTag) ==
  [S EXCEPT !.gst[oldGesture].target = newTag,
            !.gesturesByTarget = [@ EXCEPT ![newTag] = oldGesture, ![oldTag] = None]]

\* Variant: an old target without a gesture is passed over in silence.
RetargetGesture_silent(S, topLevelType, oldTag, newTag) ==
  IF S.gesturesByTarget[oldTag] = None
  THEN S
  ELSE IF S.gesturesByTarget[newTag] # None
  THEN removeGesture(
         MergeGesture(S, topLevelType, S.gesturesByTarget[oldTag],
                      S.gesturesByTarget[newTag]),
         S.gesturesByTarget[oldTag])
  ELSE RelabelGesture(S, S.gesturesByTarget[oldTag], oldTag, newTag)

RetargetGesture(S, topLevelType, oldTag, newTag) ==
  IF S.gesturesByTarget[oldTag] = None
  THEN Emit(S, "Invalid target has no gesture", getInstanceFromTag(oldTag), <<>>, "warn")
  ELSE IF S.gesturesByTarget[newTag] # None
  THEN removeGesture(
         MergeGesture(S, topLevelType, S.gesturesByTarget[oldTag],
                      S.gesturesByTarget[newTag]),
         S.gesturesByTarget[oldTag])
  ELSE RelabelGesture(S, S.gesturesByTarget[oldTag], oldTag, newTag)

targetChanged(S, topLevelType, oldTarget, newTarget) ==
  RetargetGesture(S, topLevelType, getTagFromInstance(oldTarget),
                  getTagFromInstance(newTarget))

\* activeGestures.forEach(gesture => gesture.changedTouches.length = 0)
ClearChangedTouches(S) ==
  [S EXCEPT !.gst = [g \in GestureIds |->
     IF \E i \in 1..Len(S.activeGestures) : S.activeGestures[i] = g
     THEN [@[g] EXCEPT !.changedTouches = <<>>]
     ELSE @[g]]]

\* The body of the first loop over nativeEvent.changedTouches, once the
\* touch's gesture is looked up.  Reading a property of an undefined
\* gesture throws: threw is set and the loops stop.
PushChangedTouch(S, topLevelType, touch, gesture) ==
  IF gesture = None THEN [S EXCEPT !.threw = TRUE]
  ELSE [S EXCEPT !.gst[gesture] =
          [@ EXCEPT !.changedTouches = Append(@, touch),
                    !.touchMap = IF ~isEndish(topLevelType)
                                 THEN [@ EXCEPT ![touch.identifier] = touch.target]
                                 ELSE @]]

ChangedTouch(S, topLevelType, touch) ==
  PushChangedTouch(S, topLevelType, touch, S.gesturesByTouch[touch.identifier])

RECURSIVE CollectChangedTouches(_, _, _)
CollectChangedTouches(S, topLevelType, touches) ==
  IF touches = <<>> \/ S.threw THEN S
  ELSE CollectChangedTouches(
         ChangedTouch(IF isStartish(topLevelType)
                      THEN attachGesture(S, Head(touches))
                      ELSE S,
                      topLevelType, Head(touches)),
         topLevelType, Tail(touches))

\* Detach ended touches from their gestures.
DetachTouch(S, identifier, gesture) ==
  IF gesture = None THEN [S EXCEPT !.threw = TRUE]
  ELSE [S EXCEPT !.gst[gesture].touchMap[identifier] = None,
                 !.gesturesByTouch[identifier] = None]

RECURSIVE DetachTouches(_, _)
DetachTouches(S, touches) ==
  IF touches = <<>> \/ S.threw THEN S
  ELSE DetachTouches(
         DetachTouch(S, Head(touches).identifier,
                     S.gesturesByTouch[Head(touches).identifier]),
         Tail(touches))

\* The loop "for (let i = activeGestures.length - 1; i >= 0; i--)": one
\* event per gesture with changed touches.  An event keeps a reference to
\* the gesture (its changedTouches and touchHistory are read through it) and
\* copies of the gesture's target and touches.
GestureEvent(S, g) ==
  [gesture |-> g, target |-> S.gst[g].target, touches |-> TouchesOf(S.gst[g]),
   responderIgnoreScroll |-> S.responderIgnoreScroll]

RecordGesture(S, topLevelType, g) ==
  [S EXCEPT !.gst[g].touchHistory =
     recordTouchEvent(@, topLevelType, S.gst[g].changedTouches)]

\* When a gesture has no touches, remove it from the cache.
RemoveEnded(S, topLevelType, g) ==
  IF isEndish(topLevelType) /\ numberActiveTouches(S.gst[g].touchHistory) = 0
  THEN removeGesture(S, g)
  ELSE S

RECURSIVE CreateEvents(_, _, _, _)
CreateEvents(S, topLevelType, i, events) ==
  IF i = 0 THEN [S |-> S, events |-> events]
  ELSE IF S.gst[S.activeGestures[i]].changedTouches = <<>>
  THEN CreateEvents(S, topLevelType, i - 1, events)
  ELSE CreateEvents(
         RemoveEnded(RecordGesture(S, topLevelType, S.activeGestures[i]),
                     topLevelType, S.activeGestures[i]),
         topLevelType, i - 1,
         Append(events, GestureEvent(S, S.activeGestures[i])))

\* Variant: activeGestures.forEach over the live list, in which the entry
\* after a removed one moves into its place and is passed over.
RECURSIVE CreateEventsForEach(_, _, _, _)
CreateEventsForEach(S, topLevelType, i, events) ==
  IF i > Len(S.activeGestures) THEN [S |-> S, events |-> events]
  ELSE IF S.gst[S.activeGestures[i]].changedTouches = <<>>
  THEN CreateEventsForEach(S, topLevelType, i + 1, events)
  ELSE CreateEventsForEach(
         RemoveEnded(RecordGesture(S, topLevelType, S.activeGestures[i]),
                     topLevelType, S.activeGestures[i]),
         topLevelType, i + 1,
         Append(events, GestureEvent(S, S.activeGestures[i])))

ChangedGestures_forEach(S, topLevelType) ==
  IF S.threw THEN [S |-> S, events |-> <<>>]
  ELSE CreateEventsForEach(S, topLevelType, 1, <<>>)

\* Variant: the gestures as they were listed when the loop began are gone
\* through from the first to the last.
RECURSIVE CreateEventsForward(_, _, _, _, _)
CreateEventsForward(S, topLevelType, gestures, i, events) ==
  IF i > Len(gestures) THEN [S |-> S, events |-> events]
  ELSE IF S.gst[gestures[i]].changedTouches = <<>>
  THEN CreateEventsForward(S, topLevelType, gestures, i + 1, events)
  ELSE CreateEventsForward(
         RemoveEnded(RecordGesture(S, topLevelType, gestures[i]),
                     topLevelType, gestures[i]),
         topLevelType, gestures, i + 1,
         Append(events, GestureEvent(S, gestures[i])))

ChangedGestures_oldestFirst(S, topLevelType) ==
  IF S.threw THEN [S |-> S, events |-> <<>>]
  ELSE CreateEventsForward(S, topLevelType, S.activeGestures, 1, <<>>)

ChangedGestures(S, topLevelType) ==
  IF S.threw THEN [S |-> S, events |-> <<>>]
  ELSE CreateEvents(S, topLevelType, Len(S.activeGestures), <<>>)

touchesChanged(S, topLevelType, changedTouches) ==
  ChangedGestures(
    IF isEndish(topLevelType)
    THEN DetachTouches(
           CollectChangedTouches(ClearChangedTouches(S), topLevelType, changedTouches),
           changedTouches)
    ELSE CollectChangedTouches(ClearChangedTouches(S), topLevelType, changedTouches),
    topLevelType)

(***************************************************************************)
(* GesturePropagators: the instances an event is accumulated for, in       *)
(* dispatch order.                                                         *)
(***************************************************************************)
RECURSIVE accumulateDescendantDispatches(_, _)
accumulateDescendantDispatches(deepestInst, targetInst) ==
  IF deepestInst = None \/ deepestInst = targetInst THEN <<>>
  ELSE <<deepestInst>>
         \o accumulateDescendantDispatches(getParentInstance(deepestInst), targetInst)

accumulateEndDispatches(targetInst) ==
  accumulateDescendantDispatches(targetInst, None)

RECURSIVE accumulateStartDispatches(_)
accumulateStartDispatches(targetInst) ==
  IF targetInst = None THEN <<>>
  ELSE Append(accumulateStartDispatches(getParentInstance(targetInst)), targetInst)

(***************************************************************************)
(* The handlers the host application registered answer through an oracle,  *)
(* one for every changed gesture of a batch:                               *)
(*   wants        the instance whose should-set-responder handler returns  *)
(*                true (None: no handler does);                            *)
(*   termination  the current responder's onResponderTerminationRequest:   *)
(*                "absent" (no listener), "true" or "false".               *)
(***************************************************************************)
Oracle == [wants : Instances \cup {None}, termination : {"absent", "true", "false"}]

NoAnswer == [wants |-> None, termination |-> "absent"]

\* accumulateTwoPhaseDispatches(SkipTarget) followed by
\* executeDispatchesInOrderStopAtTrue: the handlers on the path from the
\* root to the target run (the target's own are skipped with skipTarget);
\* the instance of the first one that returns true is the result.
executeDispatchesInOrderStopAtTrue(targetInst, skipTarget, wants) ==
  LET path == IF skipTarget
              THEN AncestorsOrSelf(getParentInstance(targetInst))
              ELSE AncestorsOrSelf(targetInst)
  IN IF wants \in path THEN wants ELSE None

(***************************************************************************)
(* ResponderEventPlugin                                                    *)
(***************************************************************************)
ShouldSetResponderType(topLevelType) ==
  IF isStartish(topLevelType) THEN "startShouldSetResponder"
  ELSE IF isMoveish(topLevelType) THEN "moveShouldSetResponder"
  ELSE IF topLevelType = "topSelectionChange" THEN "selectionChangeShouldSetResponder"
  ELSE "scrollShouldSetResponder"

\* Variant: the gesture stays with the event's target.
GrantNext_keepsTarget(S, topLevelType, targetInst, nextInst) ==
  grant(
    Emit(IF nextInst # targetInst
         THEN Emit(S, "gestureEnd", nextInst,
                   accumulateDescendantDispatches(targetInst, nextInst),
                   "deferred")
         ELSE S,
         "responderGrant", nextInst, <<nextInst>>, "direct"),
    nextInst)

\* The tail of setResponderAndExtractTransfer, once the previous responder
\* (if any) is out of the way: lines 374-389.
GrantNext(S, topLevelType, targetInst, nextInst) ==
  grant(
    Emit(IF nextInst # targetInst
         THEN targetChanged(
                Emit(S, "gestureEnd", nextInst,
                     accumulateDescendantDispatches(targetInst, nextInst),
                     "deferred"),
                topLevelType, targetInst, nextInst)
         ELSE S,
         "responderGrant", nextInst, <<nextInst>>, "direct"),
    nextInst)

\* Variant: the answer to the termination request is not looked at.
TerminationRequest_unheeded(S, topLevelType, targetInst, currentInst, nextInst, oracle) ==
  GrantNext(
    Emit(release(S, currentInst),
         "responderTerminate", currentInst, <<currentInst>>, "direct"),
    topLevelType, targetInst, nextInst)

\* Variant: a responder without a termination-request listener refuses.
TerminationRequest_needsListener(S, topLevelType, targetInst, currentInst, nextInst, oracle) ==
  IF oracle.termination # "true"
  THEN Emit(S, "responderReject", nextInst, <<nextInst>>, "deferred")
  ELSE GrantNext(
         Emit(release(S, currentInst),
              "responderTerminate", currentInst, <<currentInst>>, "direct"),
         topLevelType, targetInst, nextInst)

\* Lines 351-372: the termination request to the active responder, sent
\* after the request event is created.
TerminationRequest(S, topLevelType, targetInst, currentInst, nextInst, oracle) ==
  IF oracle.termination = "false"
  THEN \* The active responder rejected the termination request.
       Emit(S, "responderReject", nextInst, <<nextInst>>, "deferred")
  ELSE \* The previous responder has been terminated.
       GrantNext(
         Emit(release(S, currentInst),
              "responderTerminate", currentInst, <<currentInst>>, "direct"),
         topLevelType, targetInst, nextInst)

\* Variant: without a winner of the vote, the target itself becomes the
\* responder.
Negotiate_defaultsToTarget(S, topLevelType, targetInst, currentInst, nextInst, oracle) ==
  IF nextInst = None THEN GrantNext(S, topLevelType, targetInst, targetInst)
  ELSE IF currentInst # None
  THEN TerminationRequest(
         Emit(S, "responderTerminationRequest", currentInst, <<currentInst>>,
              "direct"),
         topLevelType, targetInst, currentInst, nextInst, oracle)
  ELSE GrantNext(S, topLevelType, targetInst, nextInst)

\* Lines 344-389: what follows the vote.
Negotiate(S, topLevelType, targetInst, currentInst, nextInst, oracle) ==
  IF nextInst = None THEN S
  ELSE IF currentInst # None
  THEN TerminationRequest(
         Emit(S, "responderTerminationRequest", currentInst, <<currentInst>>,
              "direct"),
         topLevelType, targetInst, currentInst, nextInst, oracle)
  ELSE GrantNext(S, topLevelType, targetInst, nextInst)

\* Lines 325-342: the vote, from targetInst (the active responder when there
\* is one).
Vote(S, topLevelType, targetInst, currentInst, oracle) ==
  Negotiate(
    Emit(S, ShouldSetResponderType(topLevelType), targetInst, <<>>, "direct"),
    topLevelType, targetInst, currentInst,
    executeDispatchesInOrderStopAtTrue(targetInst, currentInst # None, oracle.wants),
    oracle)

\* Lines 318-323: active responders always capture touches within
\* descendants.
CaptureTarget(S, topLevelType, topLevelInst, currentInst, oracle) ==
  IF currentInst # None /\ currentInst # topLevelInst
  THEN Vote(targetChanged(S, topLevelType, topLevelInst, currentInst),
            topLevelType, currentInst, currentInst, oracle)
  ELSE Vote(S, topLevelType, topLevelInst, currentInst, oracle)

setResponderAndExtractTransfer(S, topLevelType, topLevelInst, oracle) ==
  CaptureTarget(S, topLevelType, topLevelInst,
                findAncestor(S.cache, topLevelInst), oracle)

\* Variant: the flag on a scroll is not looked at.
canTriggerTransfer_anyScroll(S, topLevelType, topLevelInst, responderIgnoreScroll) ==
  /\ topLevelInst # None
  /\ \/ topLevelType = "topScroll"
     \/ S.trackedTouchCount > 0 /\ topLevelType = "topSelectionChange"
     \/ isStartish(topLevelType)
     \/ isMoveish(topLevelType)

canTriggerTransfer(S, topLevelType, topLevelInst, responderIgnoreScroll) ==
  /\ topLevelInst # None
  /\ \/ topLevelType = "topScroll" /\ ~responderIgnoreScroll
     \/ S.trackedTouchCount > 0 /\ topLevelType = "topSelectionChange"
     \/ isStartish(topLevelType)
     \/ isMoveish(topLevelType)

ResponderEventType(topLevelType) ==
  IF isStartish(topLevelType) THEN "responderStart"
  ELSE IF isMoveish(topLevelType) THEN "responderMove"
  ELSE IF isEndish(topLevelType) THEN "responderEnd"
  ELSE "none"

\* Variant: a cancel is treated as a plain end.
ReleaseResponder_cancelAsEnd(S, topLevelType, currentInst, event) ==
  IF ~isEndish(topLevelType) THEN S
  ELSE IF numberActiveTouches(S.gst[event.gesture].touchHistory) = 0
  THEN Emit(release(S, currentInst),
            IF topLevelType = "topTouchCancel"
            THEN "responderTerminate" ELSE "responderRelease",
            currentInst, <<currentInst>>, "deferred")
  ELSE S

\* Variant: a cancel terminates the responder without releasing it.
ReleaseResponder_cancelKeeps(S, topLevelType, currentInst, event) ==
  IF ~isEndish(topLevelType) THEN S
  ELSE IF topLevelType = "topTouchCancel"
  THEN Emit(S, "responderTerminate", currentInst, <<currentInst>>, "deferred")
  ELSE IF numberActiveTouches(S.gst[event.gesture].touchHistory) = 0
  THEN Emit(release(S, currentInst),
            "responderRelease", currentInst, <<currentInst>>, "deferred")
  ELSE S

\* Lines 444-460: the end of an interaction, after the incremental touch
\* event is extracted.
ReleaseResponder(S, topLevelType, currentInst, event) ==
  IF ~isEndish(topLevelType) THEN S
  ELSE IF topLevelType = "topTouchCancel"
  THEN Emit(release(S, currentInst),
            "responderTerminate", currentInst, <<currentInst>>, "deferred")
  ELSE IF numberActiveTouches(S.gst[event.gesture].touchHistory) = 0
  THEN Emit(release(S, currentInst),
            "responderRelease", currentInst, <<currentInst>>, "deferred")
  ELSE S

\* Lines 425-461, with currentInst the first ancestor that is currently
\* responding.
TouchLifecycle(S, topLevelType, currentInst, event) ==
  IF currentInst = None THEN S
  ELSE ReleaseResponder(
         IF ResponderEventType(topLevelType) # "none"
         THEN Emit(S, ResponderEventType(topLevelType), currentInst,
                   <<currentInst>>, "deferred")
         ELSE S,
         topLevelType, currentInst, event)

FindResponder(S, topLevelType, targetInst, event) ==
  TouchLifecycle(S, topLevelType, findAncestor(S.cache, targetInst), event)

extractTouchEvents(S, topLevelType, targetInst, event, oracle) ==
  FindResponder(
    IF canTriggerTransfer(S, topLevelType, targetInst, event.responderIgnoreScroll)
    THEN setResponderAndExtractTransfer(S, topLevelType, targetInst, oracle)
    ELSE S,
    topLevelType, targetInst, event)

\* Dispatch a gestureEnd event to every responder that needs it.
GestureEnded(S, topLevelType, targetInst, event) ==
  IF isEndish(topLevelType) /\ event.touches = {}
  THEN Emit(S, "gestureEnd", targetInst, accumulateEndDispatches(targetInst),
            "deferred")
  ELSE S

\* Dispatch a gestureStart event to every potential responder.
GestureStarted(S, topLevelType, targetInst, event) ==
  IF isStartish(topLevelType)
     /\ Cardinality(event.touches) = Len(S.gst[event.gesture].changedTouches)
  THEN Emit(S, "gestureStart", targetInst, accumulateStartDispatches(targetInst),
            "direct")
  ELSE S

\* The body of the forEach over the changed gestures in extractEvents.
ExtractGestureAt(S, topLevelType, targetInst, event, oracle) ==
  GestureEnded(
    extractTouchEvents(GestureStarted(S, topLevelType, targetInst, event),
                       topLevelType, targetInst, event, oracle),
    topLevelType, targetInst, event)

ExtractGesture(S, topLevelType, event, oracle) ==
  ExtractGestureAt(S, topLevelType, getInstanceFromTag(event.target), event, oracle)

\* The instances on the paths from the root to the raw targets of touches.
RECURSIVE TouchPath(_)
TouchPath(touches) ==
  IF touches = <<>> THEN {}
  ELSE AncestorsOrSelf(resolveInstance(Head(touches).target))
         \cup TouchPath(Tail(touches))

\* The answers the handlers would give for one changed gesture of a batch
\* that can trigger a transfer: any one instance on the way from the root
\* to the gesture's target or to a changed touch's raw target may want to
\* become the responder, and a responder (when the registry holds one) may
\* have a termination-request handler.
Asked(S, topLevelType, event) ==
  IF ~canTriggerTransfer(S, topLevelType, getInstanceFromTag(event.target),
                         event.responderIgnoreScroll)
  THEN {NoAnswer}
  ELSE {[wants |-> w, termination |-> t] :
          w \in {None} \cup AncestorsOrSelf(getInstanceFromTag(event.target))
                  \cup TouchPath(S.gst[event.gesture].changedTouches),
          t \in IF \E tag \in Tags : S.cache[tag] # None
                THEN {"absent", "true", "false"}
                ELSE {"absent"}}

\* The forEach over the changed gestures, for every way the handlers can
\* answer: the set of the final states, each with the answers given.
RECURSIVE ExtractGestures(_, _, _, _)
ExtractGestures(S, topLevelType, events, i) ==
  IF i > Len(events) THEN {S}
  ELSE UNION {ExtractGestures(
                ExtractGesture([S EXCEPT !.oracles = Append(@, oracle)],
                               topLevelType, events[i], oracle),
                topLevelType, events, i + 1) :
              oracle \in Asked(S, topLevelType, events[i])}

(***************************************************************************)
(* State.  cache is ResponderCache's table (tag -> instance); gst,         *)
(* activeGestures, gesturesByTouch and gesturesByTarget are GestureCache's *)
(* module state; trackedTouchCount and previousActiveTouches are the       *)
(* plugin's counters.  nativeTouches is the host's side: the raw target of *)
(* every touch that is down.  call and log record the last extractEvents   *)
(* call and what it did.                                                   *)
(***************************************************************************)
VARIABLES cache, gst, activeGestures, gesturesByTouch, gesturesByTarget,
          trackedTouchCount, previousActiveTouches, nativeTouches, call, log

vars == <<cache, gst, activeGestures, gesturesByTouch, gesturesByTarget,
          trackedTouchCount, previousActiveTouches, nativeTouches, call, log>>

NoCall == [topLevelType |-> "none", changedTouches |-> <<>>, oracles |-> <<>>]

Init ==
  /\ cache = [tag \in Tags |-> None]
  /\ gst = [g \in GestureIds |-> NoGesture]
  /\ activeGestures = <<>>
  /\ gesturesByTouch = [id \in TouchIds |-> None]
  /\ gesturesByTarget = [tag \in Tags |-> None]
  /\ trackedTouchCount = 0
  /\ previousActiveTouches = 0
  /\ nativeTouches = [id \in TouchIds |-> None]
  /\ call = NoCall
  /\ log = <<>>

\* Gesture objects nothing refers to any more are gone; the changedTouches
\* of a gesture that only gesturesByTouch still refers to are never read
\* again (it is in neither activeGestures nor gesturesByTarget).
Collect(S) ==
  LET listed == {S.activeGestures[i] : i \in 1..Len(S.activeGestures)}
                  \cup {S.gesturesByTarget[tag] : tag \in Tags}
      held == {S.gesturesByTouch[id] : id \in TouchIds}
  IN [g \in GestureIds |->
        IF g \in listed THEN S.gst[g]
        ELSE IF g \in held THEN [S.gst[g] EXCEPT !.changedTouches = <<>>]
        ELSE NoGesture]

Called(topLevelType, changedTouches, oracles) ==
  [topLevelType |-> topLevelType, changedTouches |-> changedTouches,
   oracles |-> oracles]

\* A native touch event: its touch list is there, and it carries no flag.
NativeEvent(changedTouches) ==
  [touches |-> TRUE, changedTouches |-> changedTouches,
   responderIgnoreScroll |-> FALSE]

\* The record of a call; what is unusual about the native event is kept.
CalledWith(topLevelType, nativeEvent, oracles) ==
  IF nativeEvent = NativeEvent(nativeEvent.changedTouches)
  THEN Called(topLevelType, nativeEvent.changedTouches, oracles)
  ELSE [topLevelType |-> topLevelType,
        changedTouches |-> nativeEvent.changedTouches, oracles |-> oracles,
        touches |-> nativeEvent.touches,
        responderIgnoreScroll |-> nativeEvent.responderIgnoreScroll]

\* Variant: the interaction handler hears of every extraction.
NotifyInteraction_always(S) ==
  Emit(S, "onChange", None, <<S.trackedTouchCount>>, "interaction")

\* Lines 526-530: the interaction handler hears of a changed touch count.
NotifyInteraction(S) ==
  IF S.trackedTouchCount # previousActiveTouches
  THEN Emit(S, "onChange", None, <<S.trackedTouchCount>>, "interaction")
  ELSE S

\* extractEvents returns: S is the state it leaves behind.
Return(S, topLevelType, nativeEvent) ==
  /\ trackedTouchCount' = S.trackedTouchCount
  /\ previousActiveTouches' = S.trackedTouchCount
  /\ log' = S.log
  /\ call' = CalledWith(topLevelType, nativeEvent, S.oracles)
  /\ cache' = S.cache
  /\ gst' = Collect(S)
  /\ activeGestures' = S.activeGestures
  /\ gesturesByTouch' = S.gesturesByTouch
  /\ gesturesByTarget' = S.gesturesByTarget

\* The first loop of touchesChanged threw: the exception leaves
\* extractEvents with the cache as it is at that point.
Throw(S, topLevelType, nativeEvent) ==
  /\ trackedTouchCount' = S.trackedTouchCount
  /\ log' = <<Entry("TypeError", None, <<>>, "throw", FALSE)>>
  /\ call' = CalledWith(topLevelType, nativeEvent, <<>>)
  /\ cache' = S.cache
  /\ gst' = Collect(S)
  /\ activeGestures' = S.activeGestures
  /\ gesturesByTouch' = S.gesturesByTouch
  /\ gesturesByTarget' = S.gesturesByTarget
  /\ UNCHANGED previousActiveTouches

\* Lines 497-532, with changed the result of GestureCache.touchesChanged.
ExtractChanged(changed, topLevelType, nativeEvent) ==
  IF changed.S.threw
  THEN Throw(changed.S, topLevelType, nativeEvent)
  ELSE \E S \in ExtractGestures(changed.S, topLevelType, changed.events, 1) :
         Return(NotifyInteraction(S), topLevelType, nativeEvent)

\* Variant: the adjusted count is not checked.
CountTouches_unchecked(count, topLevelType, nativeEvent) ==
  ExtractChanged(
    touchesChanged(
      [cache |-> cache, gst |-> gst, activeGestures |-> activeGestures,
       gesturesByTouch |-> gesturesByTouch,
       gesturesByTarget |-> gesturesByTarget,
       trackedTouchCount |-> count, log |-> <<>>, oracles |-> <<>>,
       threw |-> FALSE,
       responderIgnoreScroll |-> nativeEvent.responderIgnoreScroll],
      topLevelType, nativeEvent.changedTouches),
    topLevelType, nativeEvent)

\* Lines 485-495, with count the adjusted trackedTouchCount.
CountTouches(count, topLevelType, nativeEvent) ==
  IF isEndish(topLevelType) /\ count < 0
  THEN /\ trackedTouchCount' = count
       /\ log' = <<Entry("Ended a touch event which was not counted", None,
                         <<>>, "error", FALSE)>>
       /\ call' = CalledWith(topLevelType, nativeEvent, <<>>)
       /\ UNCHANGED <<cache, gst, activeGestures, gesturesByTouch,
                      gesturesByTarget, previousActiveTouches>>
  ELSE ExtractChanged(
         touchesChanged(
           [cache |-> cache, gst |-> gst, activeGestures |-> activeGestures,
            gesturesByTouch |-> gesturesByTouch,
            gesturesByTarget |-> gesturesByTarget,
            trackedTouchCount |-> count, log |-> <<>>, oracles |-> <<>>,
            threw |-> FALSE,
            responderIgnoreScroll |-> nativeEvent.responderIgnoreScroll],
           topLevelType, nativeEvent.changedTouches),
         topLevelType, nativeEvent)

\* Lines 479-483: currently, only touch events are extracted.
NoTouches(topLevelType, nativeEvent) ==
  /\ log' = <<Entry("Native event has no touches", None, <<>>, "warn", FALSE)>>
  /\ call' = CalledWith(topLevelType, nativeEvent, <<>>)
  /\ UNCHANGED <<cache, gst, activeGestures, gesturesByTouch, gesturesByTarget,
                 trackedTouchCount, previousActiveTouches>>

\* Variant: the touch list is not looked for.
extractEvents_anyEvent(topLevelType, nativeEvent) ==
  /\ call = NoCall
  /\ CountTouches(
       IF isStartish(topLevelType)
       THEN trackedTouchCount + Len(nativeEvent.changedTouches)
       ELSE IF isEndish(topLevelType)
       THEN trackedTouchCount - Len(nativeEvent.changedTouches)
       ELSE trackedTouchCount,
       topLevelType, nativeEvent)

extractEvents(topLevelType, nativeEvent) ==
  /\ call = NoCall
  /\ IF ~nativeEvent.touches
     THEN NoTouches(topLevelType, nativeEvent)
     ELSE CountTouches(
            IF isStartish(topLevelType)
            THEN trackedTouchCount + Len(nativeEvent.changedTouches)
            ELSE IF isEndish(topLevelType)
            THEN trackedTouchCount - Len(nativeEvent.changedTouches)
            ELSE trackedTouchCount,
            topLevelType, nativeEvent)

(***************************************************************************)
(* The host: a start batch names touches that are not down and gives each  *)
(* a raw target; move, end and cancel batches name touches that are down,  *)
(* with the target they started on.                                        *)
(***************************************************************************)
Down == {id \in TouchIds : nativeTouches[id] # None}

Batches(ids) ==
  UNION {{b \in [1..n -> ids] : \A i, j \in 1..n : i # j => b[i] # b[j]} :
           n \in 1..MaxBatch}

DownTouches(b) == [i \in 1..Len(b) |-> Touch(b[i], nativeTouches[b[i]])]

TouchStart ==
  \E b \in Batches(TouchIds \ Down) :
    \E targets \in [1..Len(b) -> Tags] :
      /\ extractEvents("topTouchStart",
                       NativeEvent([i \in 1..Len(b) |-> Touch(b[i], targets[i])]))
      /\ nativeTouches' =
           [id \in TouchIds |->
              IF \E i \in 1..Len(b) : b[i] = id
              THEN targets[CHOOSE i \in 1..Len(b) : b[i] = id]
              ELSE nativeTouches[id]]

TouchMove ==
  \E b \in Batches(Down) :
    /\ extractEvents("topTouchMove", NativeEvent(DownTouches(b)))
    /\ UNCHANGED nativeTouches

TouchEnd ==
  \E b \in Batches(Down) :
    /\ extractEvents("topTouchEnd", NativeEvent(DownTouches(b)))
    /\ nativeTouches' =
         [id \in TouchIds |->
            IF \E i \in 1..Len(b) : b[i] = id THEN None ELSE nativeTouches[id]]

TouchCancel ==
  \E b \in Batches(Down) :
    /\ extractEvents("topTouchCancel", NativeEvent(DownTouches(b)))
    /\ nativeTouches' =
         [id \in TouchIds |->
            IF \E i \in 1..Len(b) : b[i] = id THEN None ELSE nativeTouches[id]]

\* The hub dispatches the returned events; the next native event is taken
\* after that.
Dispatch ==
  /\ call # NoCall
  /\ call' = NoCall
  /\ log' = <<>>
  /\ UNCHANGED <<cache, gst, activeGestures, gesturesByTouch, gesturesByTarget,
                 trackedTouchCount, previousActiveTouches, nativeTouches>>

Next == TouchStart \/ TouchMove \/ TouchEnd \/ TouchCancel \/ Dispatch

Spec == Init /\ [][Next]_vars

(***************************************************************************)
(* A host that also sends the other kinds of native event: a scroll (with  *)
(* or without the responderIgnoreScroll flag), a selection change or a     *)
(* click carrying the touches that are down, and events of any kind that   *)
(* carry no touch list.                                                    *)
(***************************************************************************)
OtherKinds == {"topScroll", "topSelectionChange", "topClick"}

EventKinds ==
  {"topTouchStart", "topTouchMove", "topTouchEnd", "topTouchCancel"}
    \cup OtherKinds

TouchOther ==
  \E b \in Batches(Down) :
    \E topLevelType \in OtherKinds :
      \E responderIgnoreScroll \in
           IF topLevelType = "topScroll" THEN BOOLEAN ELSE {FALSE} :
        /\ extractEvents(topLevelType,
                         [touches |-> TRUE, changedTouches |-> DownTouches(b),
                          responderIgnoreScroll |-> responderIgnoreScroll])
        /\ UNCHANGED nativeTouches

NoTouchList ==
  \E topLevelType \in EventKinds :
    /\ extractEvents(topLevelType,
                     [touches |-> FALSE, changedTouches |-> <<>>,
                      responderIgnoreScroll |-> FALSE])
    /\ UNCHANGED nativeTouches

KindsNext ==
  TouchStart \/ TouchMove \/ TouchEnd \/ TouchCancel \/ TouchOther
    \/ NoTouchList \/ Dispatch

KindsSpec == Init /\ [][KindsNext]_vars

(***************************************************************************)
(* A host that also names touches it never started: a move, end or cancel  *)
(* batch in which at least one touch is not down.  The host is followed up *)
(* to the first call that leaves trackedTouchCount out of step with the    *)
(* touches that are down.                                                  *)
(***************************************************************************)
InStep == trackedTouchCount = Cardinality(Down)

StrayTouches(b, targets) ==
  [i \in 1..Len(b) |->
     Touch(b[i], IF b[i] \in Down THEN nativeTouches[b[i]] ELSE targets[i])]

StrayTouch ==
  \E b \in Batches(TouchIds) :
    \E targets \in [1..Len(b) -> Tags] :
      \E topLevelType \in {"topTouchMove", "topTouchEnd", "topTouchCancel"} :
        /\ InStep
        /\ \E i \in 1..Len(b) : b[i] \notin Down
        /\ extractEvents(topLevelType, NativeEvent(StrayTouches(b, targets)))
        /\ UNCHANGED nativeTouches

StrayNext == (InStep /\ Next) \/ StrayTouch

StraySpec == Init /\ [][StrayNext]_vars

(***************************************************************************)
(* GestureCache on its own: the module's two exports, touchesChanged and   *)
(* targetChanged, called by a client with any arguments a host and a       *)
(* plugin can pass (the registry stays empty).  call and log record the    *)
(* last call and what it reported.                                         *)
(***************************************************************************)
\* The module state as the operators take it.
CurrentCache ==
  [cache |-> cache, gst |-> gst, activeGestures |-> activeGestures,
   gesturesByTouch |-> gesturesByTouch, gesturesByTarget |-> gesturesByTarget,
   trackedTouchCount |-> trackedTouchCount, log |-> <<>>, oracles |-> <<>>,
   threw |-> FALSE, responderIgnoreScroll |-> FALSE]

\* The call leaves S behind.
Leave(S) ==
  /\ gst' = Collect(S)
  /\ activeGestures' = S.activeGestures
  /\ gesturesByTouch' = S.gesturesByTouch
  /\ gesturesByTarget' = S.gesturesByTarget
  /\ log' = IF S.threw THEN <<Entry("TypeError", None, <<>>, "throw", FALSE)>>
            ELSE S.log
  /\ UNCHANGED <<cache, trackedTouchCount, previousActiveTouches>>

Retargeted(topLevelType, oldTarget, newTarget) ==
  [topLevelType |-> topLevelType, changedTouches |-> <<>>, oracles |-> <<>>,
   oldTarget |-> oldTarget, newTarget |-> newTarget]

CallTouchesChanged(topLevelType, changedTouches) ==
  /\ call = NoCall
  /\ Leave(touchesChanged(CurrentCache, topLevelType, changedTouches).S)
  /\ call' = Called(topLevelType, changedTouches, <<>>)

CacheStart ==
  \E b \in Batches(TouchIds \ Down) :
    \E targets \in [1..Len(b) -> Tags] :
      /\ CallTouchesChanged("topTouchStart",
                            [i \in 1..Len(b) |-> Touch(b[i], targets[i])])
      /\ nativeTouches' =
           [id \in TouchIds |->
              IF \E i \in 1..Len(b) : b[i] = id
              THEN targets[CHOOSE i \in 1..Len(b) : b[i] = id]
              ELSE nativeTouches[id]]

CacheMove ==
  \E b \in Batches(Down) :
    /\ CallTouchesChanged("topTouchMove", DownTouches(b))
    /\ UNCHANGED nativeTouches

CacheEnd ==
  \E b \in Batches(Down) :
    \E topLevelType \in {"topTouchEnd", "topTouchCancel"} :
      /\ CallTouchesChanged(topLevelType, DownTouches(b))
      /\ nativeTouches' =
           [id \in TouchIds |->
              IF \E i \in 1..Len(b) : b[i] = id THEN None ELSE nativeTouches[id]]

CacheRetarget ==
  \E oldTarget, newTarget \in Instances :
    \E topLevelType \in {"topTouchStart", "topTouchMove"} :
      /\ call = NoCall
      /\ Leave(targetChanged(CurrentCache, topLevelType, oldTarget, newTarget))
      /\ call' = Retargeted(topLevelType, oldTarget, newTarget)
      /\ UNCHANGED nativeTouches

\* The client takes the result; the next call comes after that.
CacheReturn ==
  /\ call # NoCall
  /\ call' = NoCall
  /\ log' = <<>>
  /\ UNCHANGED <<cache, gst, activeGestures, gesturesByTouch, gesturesByTarget,
                 trackedTouchCount, previousActiveTouches, nativeTouches>>

GestureCacheNext ==
  CacheStart \/ CacheMove \/ CacheEnd \/ CacheRetarget \/ CacheReturn

GestureCacheSpec == Init /\ [][GestureCacheNext]_vars

(***************************************************************************)
(* ResponderCache called on its own: a client of the registry grants and   *)
(* releases instances directly, in any order.                              *)
(***************************************************************************)
RegistryCalled(fn, inst) ==
  [topLevelType |-> fn, changedTouches |-> <<>>, oracles |-> <<>>,
   inst |-> inst]

\* The registry call leaves S behind.
LeaveRegistry(S) ==
  /\ cache' = S.cache
  /\ log' = S.log
  /\ UNCHANGED <<gst, activeGestures, gesturesByTouch, gesturesByTarget,
                 trackedTouchCount, previousActiveTouches, nativeTouches>>

CallGrant ==
  \E inst \in Instances :
    /\ call = NoCall
    /\ LeaveRegistry(grant(CurrentCache, inst))
    /\ call' = RegistryCalled("grant", inst)

CallRelease ==
  \E inst \in Instances :
    /\ call = NoCall
    /\ LeaveRegistry(release(CurrentCache, inst))
    /\ call' = RegistryCalled("release", inst)

\* The target is a tag, an instance, or nothing; the answer is logged.
CallFindAncestor ==
  \E target \in Tags \cup Instances \cup {None} :
    /\ call = NoCall
    /\ log' = <<Entry("findAncestor", findAncestor(cache, target), <<target>>,
                      "result", FALSE)>>
    /\ call' = RegistryCalled("findAncestor", target)
    /\ UNCHANGED <<cache, gst, activeGestures, gesturesByTouch,
                   gesturesByTarget, trackedTouchCount, previousActiveTouches,
                   nativeTouches>>

\* The client goes on; the next call comes after that.
RegistryReturn ==
  /\ call # NoCall
  /\ call' = NoCall
  /\ log' = <<>>
  /\ UNCHANGED <<cache, gst, activeGestures, gesturesByTouch, gesturesByTarget,
                 trackedTouchCount, previousActiveTouches, nativeTouches>>

ResponderCacheNext ==
  CallGrant \/ CallRelease \/ CallFindAncestor \/ RegistryReturn

ResponderCacheSpec == Init /\ [][ResponderCacheNext]_vars

(***************************************************************************)
(* Vocabulary of the properties.                                           *)
(***************************************************************************)
\* The instances that hold responder status.
Responders == {cache[tag] : tag \in Tags} \ {None}

\* The gestures in the cache (the gesture list).
Listed == {activeGestures[i] : i \in 1..Len(activeGestures)}

IsProperAncestor(a, d) == a # d /\ a \in AncestorsOrSelf(d)

RegistryCalls == SelectSeq(log, LAMBDA e : e.mode = "registry")

ResponderEventTypes ==
  {"responderStart", "responderMove", "responderEnd", "responderRelease",
   "responderGrant", "responderReject", "responderTerminate"}

\* The responder events of the last extraction, in order, as <<type, inst>>.
ResponderEventsOf(entries) ==
  LET sel == SelectSeq(entries, LAMBDA e : e.type \in ResponderEventTypes)
  IN [i \in 1..Len(sel) |-> <<sel[i].type, sel[i].inst>>]

InteractionNotices(entries) == SelectSeq(entries, LAMBDA e : e.mode = "interaction")

\* The touches in the touch maps of all the gestures in the cache.
RECURSIVE CountTouchMaps(_)
CountTouchMaps(gestures) ==
  IF gestures = {} THEN 0
  ELSE LET g == CHOOSE x \in gestures : TRUE
       IN Cardinality(TouchesOf(gst[g])) + CountTouchMaps(gestures \ {g})

\* The nearest instance on inst's ancestor chain (inst included) that holds
\* responder status, or None.
NearestResponder(inst) ==
  LET held == Responders \cap AncestorsOrSelf(inst)
  IN IF held = {} THEN None
     ELSE CHOOSE r \in held : \A q \in held : q \in AncestorsOrSelf(r)

\* The last call was a batch of one touch.
OneTouchCall(topLevelType) ==
  /\ call.topLevelType = topLevelType
  /\ Len(call.changedTouches) = 1
  /\ Len(call.oracles) = 1

\* The last call was targetChanged.
IsRetarget(c) == "oldTarget" \in DOMAIN c

(***************************************************************************)
(* C1  Single ownership: every registry entry is the instance of the tag   *)
(* it is filed under (so one instance per target identity), and every      *)
(* touch in the touch map of a listed gesture whose target is a registered *)
(* responder started on that responder or on one of its descendants.       *)
(***************************************************************************)
C1_SingleOwnership ==
  /\ \A tag \in Tags :
       cache[tag] # None => getTagFromInstance(cache[tag]) = tag
  /\ \A g \in Listed :
       gst[g].target \in Tags /\ cache[gst[g].target] # None =>
         \A id \in TouchesOf(gst[g]) :
           cache[gst[g].target] \in AncestorsOrSelf(resolveInstance(gst[g].touchMap[id]))

\* A responder holds the gesture of a touch that started on a proper
\* descendant of it.
C1_Witness ==
  \E g \in Listed :
    /\ gst[g].target \in Tags
    /\ cache[gst[g].target] # None
    /\ \E id \in TouchesOf(gst[g]) :
         IsProperAncestor(cache[gst[g].target], resolveInstance(gst[g].touchMap[id]))

(***************************************************************************)
(* C2  Exclusive within a subtree: the registry never holds two responders *)
(* one of which is a proper ancestor of the other.                         *)
(***************************************************************************)
C2_NoNestedResponders ==
  \A r1, r2 \in Responders : ~IsProperAncestor(r1, r2)

(***************************************************************************)
(* C3  Grant/release pairing: grant is never called for an instance that   *)
(* still has its entry, release never for an instance without one.         *)
(***************************************************************************)
C3_GrantReleaseAlternate ==
  \A i \in 1..Len(log) :
    log[i].mode = "registry" =>
      /\ log[i].type = "grant" => ~log[i].had
      /\ log[i].type = "release" => log[i].had

(***************************************************************************)
(* C4  Touch conservation: the touch maps of the gestures in the cache     *)
(* hold as many touches as there are touches down.                         *)
(***************************************************************************)
C4_TouchConservation ==
  CountTouchMaps(Listed) = Cardinality(Down)

(***************************************************************************)
(* C5  Ordering, as claimed: with T1 the active responder, a touch start   *)
(* on a descendant T2 whose start vote handler returns true and T1's       *)
(* termination-request handler returning true, the responder events of the *)
(* extraction are T1 terminate, T2 grant, T2 responder-start; the tracked  *)
(* touch count grows by one and the interaction observer hears once.       *)
(***************************************************************************)
C5_Scenario(T1, T2) ==
  /\ IsProperAncestor(T1, T2)
  /\ NearestResponder(T2) = T1
  /\ \E id \in TouchIds :
       call' = Called("topTouchStart", <<Touch(id, getTagFromInstance(T2))>>,
                      <<[wants |-> T2, termination |-> "true"]>>)

C5_OrderingAsClaimed ==
  [][\A T1, T2 \in Instances :
       C5_Scenario(T1, T2) =>
         /\ ResponderEventsOf(log') =
              << <<"responderTerminate", T1>>, <<"responderGrant", T2>>,
                 <<"responderStart", T2>> >>
         /\ trackedTouchCount' = trackedTouchCount + 1
         /\ Len(InteractionNotices(log')) = 1]_vars

(***************************************************************************)
(* C5 amended: in that scenario the descendant's handler is not run (the   *)
(* vote goes from T1 upward and skips T1), so no transfer happens: the     *)
(* only responder event is T1 responder-start, the registry is unchanged,  *)
(* the tracked touch count grows by one and the observer hears once.       *)
(***************************************************************************)
C5_DescendantCannotTake ==
  [][\A T1, T2 \in Instances :
       C5_Scenario(T1, T2) =>
         /\ ResponderEventsOf(log') = << <<"responderStart", T1>> >>
         /\ cache' = cache
         /\ RegistryCalls' = <<>>
         /\ trackedTouchCount' = trackedTouchCount + 1
         /\ Len(InteractionNotices(log')) = 1]_vars

C5_Witness ==
  /\ OneTouchCall("topTouchStart")
  /\ call.oracles[1].termination = "true"
  /\ call.oracles[1].wants = resolveInstance(call.changedTouches[1].target)
  /\ \E T1 \in Responders :
       /\ IsProperAncestor(T1, call.oracles[1].wants)
       /\ ResponderEventsOf(log) = << <<"responderStart", T1>> >>

(***************************************************************************)
(* C6  Rejection, as claimed: with T1 the active responder, a candidate T2 *)
(* that wins the vote and T1's termination-request handler returning       *)
(* false, the only responder event is T2 responder-reject, and the         *)
(* registry still maps T1's tag to T1.                                     *)
(***************************************************************************)
\* T1 was sent the termination request of a one-touch batch and said no.
C6_Scenario(T1, T2) ==
  /\ \/ OneTouchCall("topTouchStart")
     \/ OneTouchCall("topTouchMove")
  /\ call.oracles[1] = [wants |-> T2, termination |-> "false"]
  /\ \E i \in 1..Len(log) :
       log[i].type = "responderTerminationRequest" /\ log[i].inst = T1

C6_RejectionAsClaimed ==
  \A T1, T2 \in Instances :
    C6_Scenario(T1, T2) =>
      /\ ResponderEventsOf(log) = << <<"responderReject", T2>> >>
      /\ cache[getTagFromInstance(T1)] = T1

(***************************************************************************)
(* C6 amended: the responder events are T2 responder-reject followed by    *)
(* the incremental event (responder-start or responder-move) of T1, which  *)
(* stays the responder: no terminate, no grant, no registry call.          *)
(***************************************************************************)
C6_RejectionKeepsResponder ==
  \A T1, T2 \in Instances :
    C6_Scenario(T1, T2) =>
      /\ ResponderEventsOf(log) =
           << <<"responderReject", T2>>,
              <<IF call.topLevelType = "topTouchStart"
                THEN "responderStart" ELSE "responderMove", T1>> >>
      /\ RegistryCalls = <<>>
      /\ cache[getTagFromInstance(T1)] = T1

C6_Witness ==
  \E T1, T2 \in Instances :
    /\ C6_Scenario(T1, T2)
    /\ IsProperAncestor(T2, T1)
    /\ Len(ResponderEventsOf(log)) = 2

(***************************************************************************)
(* C7  End-of-interaction cleanup: ending (not cancelling) the only touch  *)
(* of a listed gesture removes the gesture from the gesture list, the      *)
(* target index and the touch index, releases the nearest responder of the *)
(* gesture's target if there is one (responder-end, then registry release  *)
(* and responder-release), and takes the touch off the tracked count.      *)
(***************************************************************************)
C7_Scenario(id) ==
  /\ gesturesByTouch[id] \in Listed
  /\ TouchesOf(gst[gesturesByTouch[id]]) = {id}
  /\ call' = Called("topTouchEnd", <<Touch(id, nativeTouches[id])>>, <<NoAnswer>>)

C8_ReleaseOnlyWithoutTouches ==
  call.topLevelType = "topTouchEnd" =>
    \A i \in 1..Len(log) :
      log[i].mode = "registry" /\ log[i].type = "release" =>
        \A id \in Down :
          gesturesByTouch[id] # None =>
            gst[gesturesByTouch[id]].target # getTagFromInstance(log[i].inst)

(***************************************************************************)
(* C9  Once every started touch has ended or been cancelled, the registry  *)
(* holds no responder and the gesture list, the target index and the touch *)
(* index are empty.                                                        *)
(***************************************************************************)
C9_AllEndedAllClear ==
  Down = {} =>
    /\ Responders = {}
    /\ activeGestures = <<>>
    /\ \A tag \in Tags : gesturesByTarget[tag] = None
    /\ \A id \in TouchIds : gesturesByTouch[id] = None

\* The last touch ended or was cancelled while a responder was registered.
C9_Witness ==
  /\ Down = {}
  /\ isEndish(call.topLevelType)
  /\ \E i \in 1..Len(log) : log[i].mode = "registry" /\ log[i].type = "release"
  /\ Len(call.changedTouches) = MaxBatch

(***************************************************************************)
(* C10  Transfers go upward: when a responder R is terminated for a        *)
(* transfer, the instance granted next is a proper ancestor of R; and no   *)
(* proper descendant of an instance that holds responder status before and *)
(* after an extraction becomes a responder in it.                          *)
(***************************************************************************)
C10_TransferredUpward(entries) ==
  \A i, j \in 1..Len(entries) :
    /\ i < j
    /\ entries[i].type = "responderTerminate" /\ entries[i].mode = "direct"
    /\ entries[j].mode = "registry" /\ entries[j].type = "grant"
    /\ \A k \in (i + 1)..(j - 1) : entries[k].mode # "registry"
    => IsProperAncestor(entries[j].inst, entries[i].inst)

C10_OnlyUpward ==
  [][/\ C10_TransferredUpward(log')
     /\ \A R \in Responders \cap Responders' :
          \A N \in Responders' \ Responders : ~IsProperAncestor(R, N)]_vars

(***************************************************************************)
(* C11  Cancel forces termination: in a touch-cancel batch, the nearest    *)
(* responder R of the target of every changed listed gesture loses its     *)
(* registry entry and gets responder-end, then the registry release, then  *)
(* responder-terminate, whether or not touches of it remain down; no vote  *)
(* and no termination request is made.                                     *)
(***************************************************************************)
\* entries holds responder-end, the registry release and responder-terminate
\* for R, in that order.
C11_Terminated(entries, R) ==
  \E i, j, k \in 1..Len(entries) :
    /\ i < j /\ j < k
    /\ entries[i].type = "responderEnd" /\ entries[i].inst = R
    /\ entries[j].mode = "registry" /\ entries[j].type = "release"
    /\ entries[j].inst = R
    /\ entries[k].type = "responderTerminate" /\ entries[k].inst = R

C11_NoNegotiation(entries) ==
  \A i \in 1..Len(entries) :
    entries[i].type \notin
      {"startShouldSetResponder", "moveShouldSetResponder",
       "scrollShouldSetResponder", "selectionChangeShouldSetResponder",
       "responderTerminationRequest", "responderGrant", "responderReject",
       "responderRelease", "grant"}

C11_CancelTerminates ==
  [][call'.topLevelType = "topTouchCancel" =>
       /\ C11_NoNegotiation(log')
       /\ \A n \in 1..Len(call'.changedTouches) :
            LET g == gesturesByTouch[call'.changedTouches[n].identifier]
                R == NearestResponder(getInstanceFromTag(gst[g].target))
            IN g \in Listed /\ R # None =>
                 /\ cache'[getTagFromInstance(R)] = None
                 /\ C11_Terminated(log', R)]_vars

\* A responder was terminated by a cancel while a touch of its gesture stays
\* down.
C11_Witness ==
  /\ call.topLevelType = "topTouchCancel"
  /\ \E R \in Instances :
       /\ C11_Terminated(log, R)
       /\ gesturesByTarget[getTagFromInstance(R)] # None
       /\ \E id \in Down :
            gesturesByTouch[id] = gesturesByTarget[getTagFromInstance(R)]

(***************************************************************************)
(* C12  Retargeting a target to itself is rejected: the call is reported   *)
(* and the gesture list, the target index, the touch index and every       *)
(* gesture (touch map, changed touches, history) are as before.            *)
(***************************************************************************)
C12_SelfRetargetRejected ==
  [][IsRetarget(call') /\ call'.oldTarget = call'.newTarget =>
       /\ \E i \in 1..Len(log') : log'[i].mode = "warn"
       /\ activeGestures' = activeGestures
       /\ gesturesByTarget' = gesturesByTarget
       /\ gesturesByTouch' = gesturesByTouch
       /\ gst' = gst]_vars

(***************************************************************************)
(* C13  Retarget round trip: for distinct targets A and B where A owns a   *)
(* gesture and B owns none, retargeting A to B and then B to A with no     *)
(* batch in between gives back the cache as it was: the same gesture,      *)
(* targeted at A with the same touch map, indexed under A only, and the    *)
(* same touch index.                                                       *)
(***************************************************************************)
RoundTrip(topLevelType, A, B) ==
  targetChanged(targetChanged(CurrentCache, topLevelType, A, B), topLevelType, B, A)

C13_Restored(S, A, B) ==
  /\ S.gst = gst
  /\ S.activeGestures = activeGestures
  /\ S.gesturesByTarget = gesturesByTarget
  /\ S.gesturesByTouch = gesturesByTouch
  /\ S.gst[S.gesturesByTarget[getTagFromInstance(A)]].target = getTagFromInstance(A)
  /\ S.gesturesByTarget[getTagFromInstance(B)] = None
  /\ S.log = <<>>

C13_RetargetRoundTrip ==
  \A A, B \in Instances :
    \A topLevelType \in {"topTouchStart", "topTouchMove"} :
      /\ A # B
      /\ gesturesByTarget[getTagFromInstance(A)] # None
      /\ gesturesByTarget[getTagFromInstance(B)] = None
      => C13_Restored(RoundTrip(topLevelType, A, B), A, B)

\* The second half of a round trip was made: B, which took over A's
\* gesture with its touches, was retargeted to A, which owned none.
C13_Witness ==
  /\ IsRetarget(call)
  /\ call.oldTarget # call.newTarget
  /\ log = <<>>
  /\ gesturesByTarget[getTagFromInstance(call.newTarget)] # None
  /\ gesturesByTarget[getTagFromInstance(call.oldTarget)] = None
  /\ TouchesOf(gst[gesturesByTarget[getTagFromInstance(call.newTarget)]]) # {}
  /\ Len(activeGestures) = 1

(***************************************************************************)
(* C14  extractEvents never throws: no call, whatever its kind and batch   *)
(* (a move or end batch naming an untracked touch included), ends with an  *)
(* exception.                                                              *)
(***************************************************************************)
C14_NeverThrows ==
  \A i \in 1..Len(log) : log[i].mode # "throw"

(***************************************************************************)
(* C15  Negative counter: when an end-like batch would make the tracked    *)
(* touch counter negative, extractEvents reports it and returns no event;  *)
(* the gesture cache and the registry are not changed and the interaction  *)
(* observer is not notified.                                               *)
(***************************************************************************)
C15_NegativeCountAborts ==
  [][/\ isEndish(call'.topLevelType)
     /\ trackedTouchCount - Len(call'.changedTouches) < 0
     => /\ Len(log') = 1 /\ log'[1].mode = "error"
        /\ UNCHANGED <<cache, gst, activeGestures, gesturesByTouch,
                       gesturesByTarget, previousActiveTouches>>]_vars

\* An end-like batch was refused for its count while a gesture and a
\* responder exist.
C15_Witness ==
  /\ isEndish(call.topLevelType)
  /\ trackedTouchCount < 0
  /\ Len(log) = 1 /\ log[1].mode = "error"
  /\ activeGestures # <<>>
  /\ Responders # {}

(***************************************************************************)
(* C16  No touch list: when the native event carries no touch list,        *)
(* extractEvents reports it and returns no event; the tracked touch count, *)
(* the previous count, the gesture cache and the registry are unchanged.   *)
(***************************************************************************)
HasNoTouchList(c) == "touches" \in DOMAIN c /\ ~c.touches

C16_NoTouchListAborts ==
  [][HasNoTouchList(call') =>
       /\ Len(log') = 1 /\ log'[1].mode = "warn"
       /\ UNCHANGED <<trackedTouchCount, previousActiveTouches, cache, gst,
                      activeGestures, gesturesByTouch, gesturesByTarget>>]_vars

\* An event without a touch list arrived in the middle of an interaction.
C16_Witness ==
  /\ HasNoTouchList(call)
  /\ Len(log) = 1 /\ log[1].mode = "warn"
  /\ trackedTouchCount > 0
  /\ Responders # {}
  /\ \E g \in Listed : gst[g].changedTouches # <<>>

(***************************************************************************)
(* C17  Release of an instance that is not the registry entry of its tag:   *)
(* the release is reported, the registry keeps its entries, and the        *)
(* responder-change observer is not told that the instance stopped being   *)
(* responder.                                                              *)
(***************************************************************************)
IsRelease(c) == "inst" \in DOMAIN c /\ c.topLevelType = "release"

Reported(entries) ==
  \E i \in 1..Len(entries) : entries[i].mode \in {"warn", "error"}

ObserverTold(entries, inst) ==
  \E i \in 1..Len(entries) :
    /\ entries[i].mode = "observer"
    /\ entries[i].inst = inst /\ entries[i].to = <<None>>

C17_StrayReleaseReported ==
  [][IsRelease(call') /\ cache[getTagFromInstance(call'.inst)] # call'.inst =>
       /\ Reported(log')
       /\ cache' = cache
       /\ ~ObserverTold(log', call'.inst)]_vars

(***************************************************************************)
(* C18  When a transfer is attempted: one should-set-responder vote is run *)
(* for every changed gesture of an extraction iff the event is a scroll    *)
(* without the responderIgnoreScroll flag, a selection change while the    *)
(* tracked touch count is positive, a touch start or a touch move; for any *)
(* other kind, and for a missing target instance, no vote is run.          *)
(***************************************************************************)
IgnoresScroll(c) == "responderIgnoreScroll" \in DOMAIN c /\ c.responderIgnoreScroll

Votes(entries) ==
  SelectSeq(entries,
            LAMBDA e : e.type \in {"startShouldSetResponder",
                                   "moveShouldSetResponder",
                                   "scrollShouldSetResponder",
                                   "selectionChangeShouldSetResponder"})

TransferKind(topLevelType, ignore, count) ==
  \/ topLevelType = "topScroll" /\ ~ignore
  \/ topLevelType = "topSelectionChange" /\ count > 0
  \/ topLevelType = "topTouchStart"
  \/ topLevelType = "topTouchMove"

C18_TransferAttemptedIff ==
  /\ \A topLevelType \in EventKinds, inst \in Instances \cup {None},
        ignore \in BOOLEAN, count \in 0..MaxTouches :
       canTriggerTransfer([trackedTouchCount |-> count], topLevelType,
                          inst, ignore)
         <=> inst # None /\ TransferKind(topLevelType, ignore, count)
  /\ [][call' # NoCall =>
          Len(Votes(log')) =
            IF TransferKind(call'.topLevelType, IgnoresScroll(call'),
                            trackedTouchCount')
            THEN Len(call'.oracles) ELSE 0]_vars

\* A flagged scroll changed a gesture under a responder and no vote was run.
C18_Witness ==
  /\ call.topLevelType = "topScroll" /\ IgnoresScroll(call)
  /\ Len(call.oracles) > 0
  /\ Votes(log) = <<>>
  /\ Responders # {}

(***************************************************************************)
(* C19  Approval of a transfer: when a candidate T2 wins the vote of a     *)
(* one-touch start or move while a responder T1 exists, T1 is released and *)
(* terminated and T2 is granted responder status iff T1 has no             *)
(* termination-request listener or its handler returns true; otherwise T2  *)
(* gets responder-reject and the registry is not touched.                  *)
(***************************************************************************)
\* T1 was sent the termination request of a one-touch batch.
C19_Scenario(T1) ==
  /\ \/ OneTouchCall("topTouchStart")
     \/ OneTouchCall("topTouchMove")
  /\ \E i \in 1..Len(log) :
       log[i].type = "responderTerminationRequest" /\ log[i].inst = T1

HasEntry(entries, type, mode, inst) ==
  \E i \in 1..Len(entries) :
    entries[i].type = type /\ entries[i].mode = mode /\ entries[i].inst = inst

C19_Approved(T1, T2) ==
  /\ HasEntry(log, "release", "registry", T1)
  /\ HasEntry(log, "responderTerminate", "direct", T1)
  /\ HasEntry(log, "responderGrant", "direct", T2)
  /\ HasEntry(log, "grant", "registry", T2)
  /\ cache[getTagFromInstance(T1)] = None
  /\ cache[getTagFromInstance(T2)] = T2

C19_Refused(T1, T2) ==
  /\ HasEntry(log, "responderReject", "deferred", T2)
  /\ RegistryCalls = <<>>
  /\ cache[getTagFromInstance(T1)] = T1

C19_ApprovalIff ==
  \A T1 \in Instances :
    C19_Scenario(T1) =>
      /\ call.oracles[1].wants \in Instances \ {T1}
      /\ call.oracles[1].termination \in {"absent", "true"}
           <=> C19_Approved(T1, call.oracles[1].wants)
      /\ call.oracles[1].termination = "false"
           <=> C19_Refused(T1, call.oracles[1].wants)

\* A responder without a termination-request listener gave way.
C19_Witness ==
  \E T1 \in Instances :
    /\ C19_Scenario(T1)
    /\ call.oracles[1].termination = "absent"
    /\ C19_Approved(T1, call.oracles[1].wants)

(***************************************************************************)
(* C20  No winner, no transfer: when votes were run in an extraction that  *)
(* is not end-like and no handler on the capture-then-bubble path returned *)
(* true, no termination-request, terminate, reject or grant event is       *)
(* created, neither grant nor release is called on the registry, and the   *)
(* registry is left as it was.                                             *)
(***************************************************************************)
\* No handler returned true in the call c with log entries: none wanted to,
\* or (one-touch calls) the one that wanted to is not on the path of the
\* vote, whose target's own handlers are skipped when it is the responder.
NoWinner(c, entries, registry) ==
  \/ \A k \in 1..Len(c.oracles) : c.oracles[k].wants = None
  \/ /\ Len(c.oracles) = 1 /\ Len(Votes(entries)) = 1
     /\ \/ c.oracles[1].wants \notin AncestorsOrSelf(Votes(entries)[1].inst)
        \/ /\ c.oracles[1].wants = Votes(entries)[1].inst
           /\ registry[getTagFromInstance(Votes(entries)[1].inst)] # None

C20_NoWinnerNoTransfer ==
  [][/\ call' # NoCall /\ ~isEndish(call'.topLevelType)
     /\ Votes(log') # <<>>
     /\ NoWinner(call', log', cache)
     => /\ \A i \in 1..Len(log') :
             /\ log'[i].type \notin
                  {"responderTerminationRequest", "responderTerminate",
                   "responderReject", "responderGrant"}
             /\ log'[i].mode \notin {"registry", "observer"}
        /\ cache' = cache]_vars

\* A vote under a responder that nobody won: the responder was not asked to
\* give way.
C20_Witness ==
  /\ call.topLevelType \in {"topTouchMove", "topScroll"}
  /\ Votes(log) # <<>>
  /\ \A k \in 1..Len(call.oracles) : call.oracles[k].wants = None
  /\ Responders # {}
  /\ \A i \in 1..Len(log) : log[i].mode # "registry"

(***************************************************************************)
(* C21  Interaction notices, as claimed: every extractEvents call notifies *)
(* the interaction handler at most once, with the tracked touch count it   *)
(* leaves, and does so iff that count differs from the count the previous  *)
(* call left.                                                              *)
(***************************************************************************)
\* The step is an extractEvents call.
IsExtraction(c) == c # NoCall /\ "oldTarget" \notin DOMAIN c /\ "inst" \notin DOMAIN c

\* The call returned early or threw: it did not reach its last lines.
CutShort(entries) ==
  \E i \in 1..Len(entries) :
    entries[i].type \in {"Native event has no touches",
                         "Ended a touch event which was not counted",
                         "TypeError"}

IsFindAncestor(c) == "inst" \in DOMAIN c /\ c.topLevelType = "findAncestor"

\* The instance a target stands for, read off the tag numbering.
InstanceOf(target) ==
  IF target \in Instances THEN target
  ELSE IF target \in Tags
  THEN CHOOSE inst \in Instances : getTagFromInstance(inst) = target
  ELSE None

Positions(entries, type, mode, inst) ==
  {i \in 1..Len(entries) :
     entries[i].type = type /\ entries[i].mode = mode /\ entries[i].inst = inst}

NoticePositions(entries, from, to) ==
  {i \in 1..Len(entries) :
     /\ entries[i].mode = "observer"
     /\ entries[i].inst = from /\ entries[i].to = <<to>>}

\* c is a one-touch start or move in which R was asked to give way to N and
\* did.
ApprovedTransfer(c, entries, R, N) ==
  /\ c.topLevelType \in {"topTouchStart", "topTouchMove"}
  /\ Len(c.changedTouches) = 1 /\ Len(c.oracles) = 1
  /\ Positions(entries, "responderTerminationRequest", "direct", R) # {}
  /\ Positions(entries, "responderGrant", "direct", N) # {}

C23_OutBeforeIn(entries, R, N) ==
  LET out == <<Positions(entries, "release", "registry", R),
               NoticePositions(entries, R, None),
               Positions(entries, "responderTerminate", "direct", R)>>
      in == <<Positions(entries, "grant", "registry", N),
              NoticePositions(entries, None, N),
              Positions(entries, "responderGrant", "direct", N)>>
  IN /\ \A k \in 1..3 : Cardinality(out[k]) = 1 /\ Cardinality(in[k]) = 1
     /\ \A k, l \in 1..3 : \A i \in out[k], j \in in[l] : i < j

C23_ReleaseBeforeGrant ==
  [][\A R, N \in Instances :
       ApprovedTransfer(call', log', R, N) =>
         /\ C23_OutBeforeIn(log', R, N)
         /\ cache[getTagFromInstance(N)] = None]_vars

(***************************************************************************)
(* C24  Grouping of new touches: after touchesChanged on a start batch,    *)
(* every new touch is indexed to the gesture of its resolved target (the   *)
(* nearest registered responder on the raw target's ancestor chain, the    *)
(* raw target included, or else the raw target itself); gestures are       *)
(* created only for resolved targets that owned none, so the raw target of *)
(* a touch that starts below an active responder gets no gesture.          *)
(***************************************************************************)
\* The batches of new touches the host can send next.
StartBatches ==
  UNION {{[i \in 1..Len(b) |-> Touch(b[i], targets[i])] :
            targets \in [1..Len(b) -> Tags]} : b \in Batches(TouchIds \ Down)}

\* The tag a touch is resolved to, by the registry as it is now.
ResolvedTarget(touch) ==
  IF NearestResponder(InstanceOf(touch.target)) # None
  THEN getTagFromInstance(NearestResponder(InstanceOf(touch.target)))
  ELSE touch.target

\* S is the gesture cache that touchesChanged leaves for the batch.
C24_Grouped(S, batch) ==
  LET resolved == {ResolvedTarget(batch[i]) : i \in 1..Len(batch)}
      listed(seq) == {seq[i] : i \in 1..Len(seq)}
  IN /\ \A i \in 1..Len(batch) :
          LET g == S.gesturesByTouch[batch[i].identifier] IN
          /\ g # None /\ g \in listed(S.activeGestures)
          /\ g = S.gesturesByTarget[ResolvedTarget(batch[i])]
          /\ S.gst[g].target = ResolvedTarget(batch[i])
          /\ S.gst[g].touchMap[batch[i].identifier] = batch[i].target
     /\ \A tag \in Tags :
          IF gesturesByTarget[tag] # None \/ tag \notin resolved
          THEN S.gesturesByTarget[tag] = gesturesByTarget[tag]
          ELSE S.gesturesByTarget[tag] \notin Listed
     /\ listed(S.activeGestures) =
          Listed \cup {S.gesturesByTarget[tag] : tag \in resolved}

C24_StartsJoinNearestResponder ==
  \A batch \in StartBatches :
    C24_Grouped(touchesChanged(CurrentCache, "topTouchStart", batch).S, batch)

\* A touch started below an instance that was the responder already: it is
\* in the responder's gesture, and its raw target owns no gesture.
C24_Witness ==
  /\ call.topLevelType = "topTouchStart"
  /\ \E i \in 1..Len(call.changedTouches) :
       \E R \in Responders :
         /\ IsProperAncestor(R, InstanceOf(call.changedTouches[i].target))
         /\ ~HasEntry(log, "grant", "registry", R)
         /\ gesturesByTouch[call.changedTouches[i].identifier] =
              gesturesByTarget[getTagFromInstance(R)]
         /\ gesturesByTarget[call.changedTouches[i].target] = None

(***************************************************************************)
(* C25  Merge on retarget: when targetChanged is called for two distinct   *)
(* targets that both own gestures, every touch of old's touch map is in    *)
(* new's touch map with its raw target and is indexed to new's gesture,    *)
(* new's touch map holds the touches of the two maps and no other, old's   *)
(* changed touches follow new's in new's changed-touch list, old's gesture *)
(* is gone from the gesture list and the target index, and every touch is  *)
(* held by as many listed gestures as before.                              *)
(***************************************************************************)
\* The listed gestures that hold touch id in touch maps m, with list l.
Holders(m, l, id) ==
  {i \in 1..Len(l) : m[l[i]].touchMap[id] # None}

C25_Merged(old, new, oldTag, newTag) ==
  /\ \A id \in TouchesOf(gst[old]) :
       /\ gst'[new].touchMap[id] = gst[old].touchMap[id]
       /\ gesturesByTouch'[id] = new
  /\ TouchesOf(gst'[new]) = TouchesOf(gst[old]) \cup TouchesOf(gst[new])
  /\ gst'[new].changedTouches =
       gst[new].changedTouches \o gst[old].changedTouches
  /\ old \notin Listed' /\ new \in Listed'
  /\ Listed' = Listed \ {old}
  /\ gesturesByTarget'[oldTag] = None
  /\ gesturesByTarget'[newTag] = new
  /\ \A id \in TouchIds :
       Cardinality(Holders(gst', activeGestures', id)) =
         Cardinality(Holders(gst, activeGestures, id))

C25_MergeKeepsTouches ==
  [][/\ IsRetarget(call')
     /\ call'.oldTarget # call'.newTarget
     /\ gesturesByTarget[getTagFromInstance(call'.oldTarget)] # None
     /\ gesturesByTarget[getTagFromInstance(call'.newTarget)] # None
     => C25_Merged(gesturesByTarget[getTagFromInstance(call'.oldTarget)],
                   gesturesByTarget[getTagFromInstance(call'.newTarget)],
                   getTagFromInstance(call'.oldTarget),
                   getTagFromInstance(call'.newTarget))]_vars

\* After a retarget between distinct targets, new's gesture holds a touch
\* that started on old and one that started on new, both among its changed
\* touches; old owns nothing.
C25_Witness ==
  /\ IsRetarget(call)
  /\ call.oldTarget # call.newTarget
  /\ log = <<>>
  /\ gesturesByTarget[getTagFromInstance(call.oldTarget)] = None
  /\ gesturesByTarget[getTagFromInstance(call.newTarget)] # None
  /\ LET g == gst[gesturesByTarget[getTagFromInstance(call.newTarget)]]
     IN /\ \E id \in TouchIds :
             g.touchMap[id] = getTagFromInstance(call.oldTarget)
        /\ \E id \in TouchIds :
             g.touchMap[id] = getTagFromInstance(call.newTarget)
        /\ Len(g.changedTouches) = 2
        /\ g.changedTouches[1].target = getTagFromInstance(call.newTarget)
        /\ g.changedTouches[2].target = getTagFromInstance(call.oldTarget)

(***************************************************************************)
(* C26  Grant above the target: when a one-touch start or move grants      *)
(* responder status to an instance N other than the target T of the vote,  *)
(* one gesture-end event is created before the grant, for T and the        *)
(* instances between T and N going up, N excluded; the touch's gesture is  *)
(* then targeted at N and indexed under N (N's own gesture when it had     *)
(* one), and no gesture is indexed under T.                                *)
(***************************************************************************)
\* seq goes up the tree from T, parent by parent, and stops below N.
ClimbsFromTo(seq, T, N) ==
  /\ Len(seq) >= 1 /\ seq[1] = T
  /\ \A i \in 1..(Len(seq) - 1) : seq[i + 1] = getParentInstance(seq[i])
  /\ getParentInstance(seq[Len(seq)]) = N
  /\ \A i \in 1..Len(seq) : seq[i] # N

\* c is a one-touch start or move whose vote at T ended in a grant to N.
GrantedAbove(c, entries, T, N) ==
  /\ c.topLevelType \in {"topTouchStart", "topTouchMove"}
  /\ Len(c.changedTouches) = 1 /\ Len(c.oracles) = 1
  /\ Len(Votes(entries)) = 1 /\ Votes(entries)[1].inst = T
  /\ Positions(entries, "responderGrant", "direct", N) # {}
  /\ N # T

C26_Retargeted(id, T, N) ==
  LET ends == {i \in 1..Len(log') : log'[i].type = "gestureEnd"}
      g == gesturesByTouch'[id]
  IN /\ Cardinality(ends) = 1
     /\ \A i \in ends :
          /\ log'[i].inst = N /\ log'[i].mode = "deferred"
          /\ ClimbsFromTo(log'[i].to, T, N)
          /\ \A j \in Positions(log', "responderGrant", "direct", N) : i < j
     /\ g \in Listed'
     /\ gst'[g].target = getTagFromInstance(N)
     /\ gesturesByTarget'[getTagFromInstance(N)] = g
     /\ gesturesByTarget[getTagFromInstance(N)] # None =>
          g = gesturesByTarget[getTagFromInstance(N)]
     /\ gesturesByTarget'[getTagFromInstance(T)] = None

IsNoGestureReport(e) ==
  e.type = "Invalid target has no gesture" /\ e.mode = "warn"

\* S is what targetChanged leaves for an old target without a gesture.
C27_OnlyReported(S, oldTarget) ==
  /\ Len(S.log) = 1
  /\ IsNoGestureReport(S.log[1]) /\ S.log[1].inst = oldTarget
  /\ S.gst = gst
  /\ S.activeGestures = activeGestures
  /\ S.gesturesByTarget = gesturesByTarget
  /\ S.gesturesByTouch = gesturesByTouch
  /\ S.cache = cache
  /\ ~S.threw

C27_NoGestureNoOp ==
  /\ \A oldTarget, newTarget \in Instances :
       \A topLevelType \in {"topTouchStart", "topTouchMove"} :
         gesturesByTarget[getTagFromInstance(oldTarget)] = None =>
           C27_OnlyReported(targetChanged(CurrentCache, topLevelType,
                                          oldTarget, newTarget), oldTarget)
  /\ \A i \in 1..Len(log) :
       IsNoGestureReport(log[i]) =>
         /\ i < Len(log)
         /\ Len(Votes(<<log[i + 1]>>)) = 1
         /\ IsProperAncestor(log[i + 1].inst, log[i].inst)
         /\ \A j \in 1..Len(log) : log[j].mode # "throw"

\* An extraction reported a target without a gesture and went on to the
\* vote and the responder's move event.
C27_Witness ==
  \E i \in 1..Len(log) :
    /\ IsNoGestureReport(log[i])
    /\ \E j \in (i + 1)..Len(log) : log[j].type = "responderMove"
    /\ gesturesByTarget[getTagFromInstance(log[i].inst)] = None

(***************************************************************************)
(* C28  Order of the result, as claimed: touchesChanged returns the        *)
(* changed gestures of a batch in the order they were created, oldest      *)
(* first.                                                                  *)
(***************************************************************************)
\* The batches the host can send next, by kind.
NextBatches(topLevelType) ==
  IF isStartish(topLevelType) THEN StartBatches
  ELSE {DownTouches(b) : b \in Batches(Down)}

TouchKinds == {"topTouchStart", "topTouchMove", "topTouchEnd", "topTouchCancel"}

\* The gestures in the order they were created: the gesture list, which
\* grows at its end; a start batch adds its new gestures and removes none,
\* any other batch adds none.
CreationOrder(S, topLevelType) ==
  IF isStartish(topLevelType) THEN S.activeGestures ELSE activeGestures

C28_Ordered(changed, order, newestFirst) ==
  \A k, l \in 1..Len(changed.events) :
    k < l =>
      IF newestFirst
      THEN indexOf(order, changed.events[k].gesture)
             > indexOf(order, changed.events[l].gesture)
      ELSE indexOf(order, changed.events[k].gesture)
             < indexOf(order, changed.events[l].gesture)

C28_OldestFirst ==
  \A topLevelType \in TouchKinds :
    \A batch \in NextBatches(topLevelType) :
      C28_Ordered(touchesChanged(CurrentCache, topLevelType, batch),
                  CreationOrder(touchesChanged(CurrentCache, topLevelType, batch).S,
                                topLevelType),
                  FALSE)

(***************************************************************************)
(* C28 amended: touchesChanged returns the changed gestures of a batch in  *)
(* the reverse of the order they were created, newest first.               *)
(***************************************************************************)
C28_NewestFirst ==
  \A topLevelType \in TouchKinds :
    \A batch \in NextBatches(topLevelType) :
      C28_Ordered(touchesChanged(CurrentCache, topLevelType, batch),
                  CreationOrder(touchesChanged(CurrentCache, topLevelType, batch).S,
                                topLevelType),
                  TRUE)

\* Two touches started on two targets in one batch, and the gesture of the
\* second touch, created last, was extracted first.
C28_Witness ==
  /\ call.topLevelType = "topTouchStart"
  /\ Len(call.changedTouches) = 2
  /\ LET starts == SelectSeq(log, LAMBDA e : e.type = "gestureStart")
     IN /\ Len(starts) = 2
        /\ starts[1].inst = InstanceOf(call.changedTouches[2].target)
        /\ starts[2].inst = InstanceOf(call.changedTouches[1].target)
        /\ starts[1].inst # starts[2].inst

(***************************************************************************)
(* C29  No entry skipped or revisited: for every batch, every gesture of   *)
(* the gesture list that a changed touch belongs to is in the result of    *)
(* touchesChanged exactly once, the result holds no other gesture, and the *)
(* gesture's touch history is its previous one with the gesture's changed  *)
(* touches recorded, also when gestures are removed from the gesture list  *)
(* during the pass of an end or cancel batch.                              *)
(***************************************************************************)
\* The listed gestures the touches of a batch belong to: S is the cache
\* after the call for a start batch (the touches are new), the one before
\* it for any other.
ChangedBy(S, batch) ==
  {S.gesturesByTouch[batch[i].identifier] : i \in 1..Len(batch)}
    \cap {S.activeGestures[i] : i \in 1..Len(S.activeGestures)}

\* The touches of the batch that belong to gesture g, in batch order.
ChangedOf(S, batch, g) ==
  SelectSeq(batch, LAMBDA t : S.gesturesByTouch[t.identifier] = g)

C29_EachOnce(changed, topLevelType, batch, index) ==
  /\ ~changed.S.threw
  /\ \A g \in ChangedBy(index, batch) :
       /\ Cardinality({k \in 1..Len(changed.events) :
                         changed.events[k].gesture = g}) = 1
       /\ changed.S.gst[g].changedTouches = ChangedOf(index, batch, g)
       /\ changed.S.gst[g].touchHistory =
            recordTouchEvent(gst[g].touchHistory, topLevelType,
                             ChangedOf(index, batch, g))
  /\ \A k \in 1..Len(changed.events) :
       changed.events[k].gesture \in ChangedBy(index, batch)

C29_NoneSkippedNoneRevisited ==
  \A topLevelType \in TouchKinds :
    \A batch \in NextBatches(topLevelType) :
      C29_EachOnce(touchesChanged(CurrentCache, topLevelType, batch),
                   topLevelType, batch,
                   IF isStartish(topLevelType)
                   THEN touchesChanged(CurrentCache, topLevelType, batch).S
                   ELSE CurrentCache)

\* One end batch ended two gestures: both were removed in the same pass and
\* both were extracted.
C29_Witness ==
  /\ call.topLevelType = "topTouchEnd"
  /\ Len(call.changedTouches) = 2
  /\ LET ends == SelectSeq(log, LAMBDA e : e.type = "gestureEnd")
     IN /\ Len(ends) = 2
        /\ ends[1].inst # ends[2].inst
  /\ activeGestures = <<>>
  /\ \A tag \in Tags : gesturesByTarget[tag] = None

(***************************************************************************)
(* C30  Gesture start: an extraction creates a gesture-start event for a   *)
(* changed gesture exactly when the batch is a start and the gesture holds *)
(* as many touches as it has changed touches; the event is for the         *)
(* gesture's target and is dispatched from the root down to it, and it     *)
(* comes first for its gesture: the vote follows it directly, and so       *)
(* precedes any grant or responder-start.                                  *)
(***************************************************************************)
GestureStarts(entries) == SelectSeq(entries, LAMBDA e : e.type = "gestureStart")

\* seq goes down the tree from the root to inst, child by child.
DescendsTo(seq, inst) ==
  /\ Len(seq) >= 1
  /\ getParentInstance(seq[1]) = None
  /\ \A i \in 1..(Len(seq) - 1) : getParentInstance(seq[i + 1]) = seq[i]
  /\ seq[Len(seq)] = inst

\* The targets of the events of a result whose gestures hold as many
\* touches as they have changed touches, in the order of the result.
FirstAppearances(changed) ==
  LET firsts == SelectSeq(changed.events,
                          LAMBDA e : Cardinality(e.touches)
                                       = Len(changed.S.gst[e.gesture].changedTouches))
  IN [k \in 1..Len(firsts) |-> InstanceOf(firsts[k].target)]

C30_StartsOf(c, entries, changed) ==
  /\ [k \in 1..Len(GestureStarts(entries)) |-> GestureStarts(entries)[k].inst]
       = IF c.topLevelType = "topTouchStart" THEN FirstAppearances(changed)
         ELSE <<>>
  /\ \A i \in 1..Len(entries) :
       entries[i].type = "gestureStart" =>
         /\ entries[i].mode = "direct"
         /\ DescendsTo(entries[i].to, entries[i].inst)
         /\ i < Len(entries)
         /\ Len(Votes(<<entries[i + 1]>>)) = 1
         /\ entries[i + 1].inst \in AncestorsOrSelf(entries[i].inst)
         /\ Len(c.oracles) = 1 => i = 1

C30_GestureStartFirst ==
  [][IsExtraction(call') /\ ~CutShort(log') =>
       C30_StartsOf(call', log',
                    touchesChanged(CurrentCache, call'.topLevelType,
                                   call'.changedTouches))]_vars

(***************************************************************************)
(* C31  One gesture per target: in every reachable state no two entries of *)
(* the gesture list have the same target, and the target index maps        *)
(* exactly the targets of the listed gestures, each to its own gesture.    *)
(***************************************************************************)
\* No two entries of the gesture list have the same target.
DistinctTargets(gestures, store) ==
  \A i, j \in 1..Len(gestures) :
    i # j => store[gestures[i]].target # store[gestures[j]].target

\* The target index maps the targets of the listed gestures and no others,
\* each to the gesture that has it.
IndexedByTarget(gestures, store, byTarget) ==
  /\ \A i \in 1..Len(gestures) :
       /\ store[gestures[i]].target \in Tags
       /\ byTarget[store[gestures[i]].target] = gestures[i]
  /\ \A tag \in Tags :
       byTarget[tag] # None =>
         /\ \E i \in 1..Len(gestures) : gestures[i] = byTarget[tag]
         /\ store[byTarget[tag]].target = tag

C31_OneGesturePerTarget ==
  /\ DistinctTargets(activeGestures, gst)
  /\ IndexedByTarget(activeGestures, gst, gesturesByTarget)

\* A touch has started on a target that had a gesture already: the list
\* still holds that one gesture, now with both touches, under one index
\* entry.
C31_Witness ==
  /\ OneTouchCall("topTouchStart")
  /\ Len(activeGestures) = 1
  /\ Cardinality(TouchesOf(gst[activeGestures[1]])) = 2
  /\ Cardinality({tag \in Tags : gesturesByTarget[tag] # None}) = 1
  /\ C31_OneGesturePerTarget

(***************************************************************************)
(* C32  The touch index and the gestures agree between batches: every      *)
(* identifier in the touch index maps to a gesture that is in the gesture  *)
(* list and whose touch map holds the identifier, and every identifier in  *)
(* the touch map of a listed gesture is indexed to that gesture.           *)
(***************************************************************************)
C32_TouchIndexAgrees ==
  /\ \A id \in TouchIds :
       gesturesByTouch[id] # None =>
         /\ gesturesByTouch[id] \in Listed
         /\ id \in TouchesOf(gst[gesturesByTouch[id]])
  /\ \A g \in Listed :
       \A id \in TouchesOf(gst[g]) : gesturesByTouch[id] = g

(***************************************************************************)
(* C33  Touch history and touch map agree: after each batch, for every     *)
(* gesture in the cache the number of active touches its touch history     *)
(* reports is the number of identifiers in its touch map, merges by        *)
(* retargeting included; so a gesture that an end or cancel batch takes    *)
(* off the gesture list has an empty touch map.                            *)
(***************************************************************************)
HistoryCountsTouchMap(g) ==
  numberActiveTouches(gst[g].touchHistory) = Cardinality(TouchesOf(gst[g]))

\* The gestures an end or cancel batch took off the list hold no touch.
RemovedEmpty(c, before, after, store) ==
  IsExtraction(c) /\ isEndish(c.topLevelType) =>
    \A g \in before \ after : TouchesOf(store[g]) = {}

C33_HistoryMatchesTouchMap ==
  /\ [](\A g \in Listed : HistoryCountsTouchMap(g))
  /\ [][RemovedEmpty(call', Listed, Listed', Collect(CurrentCache'))]_vars

(***************************************************************************)
(* C34  The tracked touch counter is never negative in a state between     *)
(* extractEvents calls, the state after an extraction that was aborted     *)
(* because an end or cancel batch ended more touches than were counted     *)
(* included.                                                               *)
(***************************************************************************)
C34_CountNeverNegative ==
  trackedTouchCount >= 0

(***************************************************************************)
(* C35  Gesture-start and gesture-end are matched: every instance a        *)
(* gesture-start was dispatched to is dispatched a gesture-end by the time *)
(* the gesture's touches have ended, whether the gesture ends in place, is *)
(* relabelled to a new responder or is merged into the gesture of an       *)
(* active ancestor responder; and no instance is dispatched a gesture-end  *)
(* without a gesture-start before it.  Stated over one extraction with a   *)
(* ledger of the instances that hold a gesture-start on behalf of each     *)
(* gesture: when the batch comes in these are, for every listed gesture,   *)
(* the instances its gesture-end will go to (from its target up to the     *)
(* root); a new gesture holds none.  Handling a changed gesture adds the   *)
(* instances it is started for and takes away those it is ended for, and   *)
(* what is left goes with its touches: it stays with the gesture, joins    *)
(* the ledger of the gesture it is merged into, or must be empty when the  *)
(* touches are in no gesture any more.  No gesture-end goes to an instance *)
(* that is not in the ledger, and when the extraction returns the ledger   *)
(* of every listed gesture is again the instances its gesture-end will go  *)
(* to.                                                                     *)
(***************************************************************************)
\* The instances the entries of one type are dispatched to.
RECURSIVE DispatchedTo(_, _)
DispatchedTo(entries, type) ==
  IF entries = <<>> THEN {}
  ELSE (IF Head(entries).type = type
        THEN {Head(entries).to[k] : k \in 1..Len(Head(entries).to)}
        ELSE {})
         \cup DispatchedTo(Tail(entries), type)

\* The instances the gesture-end of gesture g goes to when g ends in S.
Holding(S, g) ==
  IF \E i \in 1..Len(S.activeGestures) : S.activeGestures[i] = g
  THEN AncestorsOrSelf(getInstanceFromTag(S.gst[g].target))
  ELSE {}

\* The gesture the touches of g are in once S has become T: g itself, the
\* gesture g was merged into, or None.
Successor(S, T, g) ==
  IF \E i \in 1..Len(T.activeGestures) : T.activeGestures[i] = g THEN g
  ELSE LET moved == {T.gesturesByTouch[id] : id \in TouchesOf(S.gst[g])}
                      \ {None, g}
       IN IF moved = {} THEN None ELSE CHOOSE h \in moved : TRUE

\* The ledger when the batch comes in.
OpenLedger ==
  [held |-> [g \in GestureIds |-> Holding(CurrentCache, g)], ok |-> TRUE]

\* The ledger once gesture g is handled: started and ended are the
\* instances a gesture-start and a gesture-end were dispatched to
\* meanwhile, next is the gesture the touches of g are in afterwards.
Handled(L, g, next, started, ended) ==
  [held |-> [h \in GestureIds |->
               IF h = next
               THEN (IF h = g THEN {} ELSE L.held[h])
                      \cup ((L.held[g] \cup started) \ ended)
               ELSE IF h = g THEN {}
               ELSE L.held[h]],
   ok |-> /\ L.ok
          /\ ended \subseteq L.held[g] \cup started
          /\ next = None => (L.held[g] \cup started) \ ended = {}]

\* Handling gesture g took S to T.
HandleGesture(L, S, T, g) ==
  Handled(L, g, Successor(S, T, g),
          DispatchedTo(SubSeq(T.log, Len(S.log) + 1, Len(T.log)), "gestureStart"),
          DispatchedTo(SubSeq(T.log, Len(S.log) + 1, Len(T.log)), "gestureEnd"))

\* The changed gestures of an extraction handled in turn, with the answers
\* the handlers gave.
RECURSIVE ReplayGestures(_, _, _, _, _, _)
ReplayGesture(L, S, T, topLevelType, events, oracles, i) ==
  ReplayGestures(HandleGesture(L, S, T, events[i].gesture), T, topLevelType,
                 events, oracles, i + 1)

ReplayGestures(L, S, topLevelType, events, oracles, i) ==
  IF i > Len(events) THEN [L |-> L, S |-> S]
  ELSE ReplayGesture(L, S,
                     ExtractGesture([S EXCEPT !.oracles = Append(@, oracles[i])],
                                    topLevelType, events[i], oracles[i]),
                     topLevelType, events, oracles, i)

C35_Settled(replayed) ==
  /\ replayed.L.ok
  /\ \A g \in GestureIds : replayed.L.held[g] = Holding(replayed.S, g)

C35_Extracted(c, changed) ==
  C35_Settled(ReplayGestures(OpenLedger, changed.S, c.topLevelType,
                             changed.events, c.oracles, 1))

C35_GestureStartsMatched ==
  [][IsExtraction(call') /\ ~CutShort(log') =>
       C35_Extracted(call',
                     touchesChanged(
                       [CurrentCache EXCEPT
                          !.trackedTouchCount = trackedTouchCount',
                          !.responderIgnoreScroll = IgnoresScroll(call')],
                       call'.topLevelType, call'.changedTouches))]_vars

====
